---- MODULE Spec2Model ----
(***************************************************************************)
(* Model of src/monitor/monitor.py: the InfluxDB monitor daemon.           *)
(*                                                                         *)
(* The process has a main thread (module import, main(), the monitoring    *)
(* loop) and the Flask listener thread, whose handlers run concurrently    *)
(* with the loop.  A call of InfluxDBMonitor.run_health_check is a "run":  *)
(* run 0 is the one the loop makes, runs 1..MaxReq are those /metrics      *)
(* requests make.  A run is a sequence of steps (timestamp, the four       *)
(* probes, the log line), each step one action.                            *)
(*                                                                         *)
(* Python values: a dict is a record; an exception leaving a call is the   *)
(* record Raise(e).  Floats rounded to two decimals are carried in         *)
(* hundredths (6667 is 66.67).  Byte counts are carried in units of 2^28   *)
(* bytes, so that 1024**3 bytes are UnitsPerGiB units.                     *)
(***************************************************************************)
EXTENDS Integers, Sequences, FiniteSets, TLC

VARIABLES
    cfgfile,    \* the content of /etc/monitor.conf
    monitor,    \* the global InfluxDBMonitor instance
    pc,         \* position of the main thread
    wakeAt,     \* the time at which the main thread's time.sleep returns
    now,        \* time.time(), in seconds
    startedAt,  \* history: time.time() when the process started
    ticks,      \* history: number of loop iterations begun
    tickMark,   \* history: length of the log when the current tick began
    lastFault,  \* history: the exception raised last in the main thread
    interruptedAt, \* history: where the main thread was when interrupted
    runs,       \* the calls of run_health_check: locals and report
    log,        \* the lines handed to the logger
    httpUp,     \* the Flask listener thread is serving
    resp        \* the last response of /health or /status

vars == <<cfgfile, monitor, pc, wakeAt, now, startedAt, ticks, tickMark,
          lastFault, interruptedAt, runs, log, httpUp, resp>>

(***************************************************************************)
(* Bounds of the model.                                                    *)
(***************************************************************************)
MaxTime == 15
ClockStep == 5
MaxTicks == 2
MaxReq == 1
MaxBlocks == 4
BootTime == 1000

(***************************************************************************)
(* Program constants.                                                      *)
(***************************************************************************)
Backoff == 10
UnitsPerGiB == 4
HttpOk == 200

LoopRun == 0
RunIds == 0..MaxReq
ProbeNames == {"influxdb", "backup_service", "storage", "system"}

Raise(e) == [exception |-> e]
IsRaise(x) == "exception" \in DOMAIN x

(***************************************************************************)
(* Configuration: configparser over the file, then int() and float().      *)
(***************************************************************************)
IntStrings == {"-1", "0", "5"}
FloatStrings == IntStrings \cup {"80.0"}

ParseInt(s) ==
    IF s \notin IntStrings THEN Raise("ValueError")
    ELSE [value |-> CASE s = "-1" -> -1 [] s = "0" -> 0 [] s = "5" -> 5]

ParseFloat(s) ==
    IF s \notin FloatStrings THEN Raise("ValueError")
    ELSE [value |-> CASE s = "-1" -> -1 [] s = "0" -> 0 [] s = "5" -> 5
                      [] s = "80.0" -> 80]

ConfigGet(file, section, key) ==
    IF section \notin DOMAIN file THEN Raise("NoSectionError")
    ELSE IF key \notin DOMAIN file[section] THEN Raise("NoOptionError")
    ELSE [value |-> file[section][key]]

NoMonitor == [constructed |-> FALSE]

\* InfluxDBMonitor.__init__: the first exception ends the construction
Construct(file) ==
    LET url == ConfigGet(file, "influxdb", "url")
        token == ConfigGet(file, "influxdb", "token")
        org == ConfigGet(file, "influxdb", "org")
        bucket == ConfigGet(file, "influxdb", "bucket")
        rawInterval == ConfigGet(file, "monitoring", "check_interval")
        interval == IF IsRaise(rawInterval) THEN rawInterval
                    ELSE ParseInt(rawInterval.value)
        rawThreshold == ConfigGet(file, "monitoring", "alert_threshold")
        threshold == IF IsRaise(rawThreshold) THEN rawThreshold
                     ELSE ParseFloat(rawThreshold.value)
    IN  IF IsRaise(url) THEN url
        ELSE IF IsRaise(token) THEN token
        ELSE IF IsRaise(org) THEN org
        ELSE IF IsRaise(bucket) THEN bucket
        ELSE IF IsRaise(interval) THEN interval
        ELSE IF IsRaise(threshold) THEN threshold
        ELSE [constructed |-> TRUE,
              influxdb_url |-> url.value,
              token |-> token.value,
              org |-> org.value,
              bucket |-> bucket.value,
              check_interval |-> interval.value,
              alert_threshold |-> threshold.value]

(***************************************************************************)
(* The four probes, each a function of what its external call gave.        *)
(***************************************************************************)
\* check_influxdb_health: r is the response of requests.get, or its exception
CheckInfluxdbHealth(r) ==
    IF IsRaise(r) THEN [status |-> "error", error |-> r.exception]
    ELSE IF r.status_code = HttpOk
    THEN [status |-> "healthy", response_time |-> r.elapsed]
    ELSE [status |-> "unhealthy", status_code |-> r.status_code]

\* check_backup_service: r is the value os.system returned, or its exception
CheckBackupService(r) ==
    IF IsRaise(r) THEN [status |-> "error", error |-> r.exception]
    ELSE IF r.result = 0 THEN [status |-> "running"]
    ELSE [status |-> "stopped"]

\* Round2 as int(x * 100) / 100 would have it: cut, not rounded
Round2Truncating(n, d) == (n * 100) \div d

\* Python's round(n / d, 2) in hundredths, for n >= 0 and d > 0: to the
\* nearest hundredth, a tie to the even one
Round2(n, d) ==
    LET q == (n * 100) \div d
        r == (n * 100) % d
    IN  IF 2 * r < d THEN q
        ELSE IF 2 * r > d THEN q + 1
        ELSE IF q % 2 = 0 THEN q ELSE q + 1

\* CheckStorageUsage with `except OSError` for `except Exception`: the
\* ZeroDivisionError of an empty filesystem leaves the probe
CheckStorageUsageNarrowExcept(fs) ==
    IF ~fs.exists
    THEN [status |-> "error", error |-> "Backup directory not found"]
    ELSE IF IsRaise(fs.stat)
    THEN [status |-> "error", error |-> fs.stat.exception]
    ELSE LET free_space == fs.stat.f_frsize * fs.stat.f_bavail
             total_space == fs.stat.f_frsize * fs.stat.f_blocks
         IN  IF total_space = 0
             THEN Raise("ZeroDivisionError")
             ELSE [status |-> "ok",
                   free_space_gb |-> Round2(free_space, UnitsPerGiB),
                   used_percentage |->
                       Round2((total_space - free_space) * 100, total_space)]

\* check_storage_usage: fs is what os.path.exists and os.statvfs give
CheckStorageUsage(fs) ==
    IF ~fs.exists
    THEN [status |-> "error", error |-> "Backup directory not found"]
    ELSE IF IsRaise(fs.stat)
    THEN [status |-> "error", error |-> fs.stat.exception]
    ELSE LET free_space == fs.stat.f_frsize * fs.stat.f_bavail
             total_space == fs.stat.f_frsize * fs.stat.f_blocks
         IN  IF total_space = 0
             THEN [status |-> "error", error |-> "division by zero"]
             ELSE [status |-> "ok",
                   free_space_gb |-> Round2(free_space, UnitsPerGiB),
                   used_percentage |->
                       Round2((total_space - free_space) * 100, total_space)]

\* get_system_metrics: r is what importing and sampling psutil gives
GetSystemMetrics(r) ==
    IF IsRaise(r)
    THEN IF r.exception = "ImportError"
         THEN [status |-> "psutil not available"]
         ELSE [status |-> "error", error |-> r.exception]
    ELSE [cpu_percent |-> r.cpu, memory_percent |-> r.memory,
          disk_percent |-> r.disk]

(***************************************************************************)
(* A run of run_health_check.  The dict display of lines 102-108 evaluates *)
(* time.time() and the four probe calls in order; `seen` are the values    *)
(* the external calls gave the run, `res` the probe results so far.        *)
(***************************************************************************)
EmptyDict == [k \in {} |-> 0]
IdleRun ==
    [pc |-> "idle", ts |-> 0, seen |-> EmptyDict, res |-> EmptyDict, exc |-> ""]
NewRun(t) ==
    [pc |-> "influxdb", ts |-> t, seen |-> EmptyDict, res |-> EmptyDict,
     exc |-> ""]

\* the thread that executes run r is running it
Executing(r) == IF r = LoopRun THEN pc = "check" ELSE httpUp

\* StoreResult with health_data a dict of the monitor instance, shared by
\* the runs in progress, for the local of line 102
StoreResultShared(rs, r, name, in, val, next) ==
    [q \in DOMAIN rs |->
        IF q = r
        THEN [rs[q] EXCEPT !.pc = next, !.seen = (name :> in) @@ @,
                           !.res = (name :> val) @@ @]
        ELSE IF rs[q].pc \in {"idle", "responded", "failed"} THEN rs[q]
        ELSE [rs[q] EXCEPT !.res = (name :> val) @@ @]]

\* a probe returned `val` (or raised) to run r, having got `in`
StoreResult(rs, r, name, in, val, next) ==
    IF IsRaise(val)
    THEN [rs EXCEPT ![r].pc = "raised", ![r].exc = val.exception,
                    ![r].seen = (name :> in) @@ @]
    ELSE [rs EXCEPT ![r].pc = next,
                    ![r].seen = (name :> in) @@ @,
                    ![r].res = (name :> val) @@ @]

LogLine(level, msg) == [level |-> level, msg |-> msg]

InfluxStep(r, in) ==
    /\ Executing(r)
    /\ runs[r].pc = "influxdb"
    /\ runs' = StoreResult(runs, r, "influxdb", in, CheckInfluxdbHealth(in),
                           "backup_service")
    /\ UNCHANGED <<cfgfile, monitor, pc, wakeAt, now, startedAt, ticks,
                   tickMark, lastFault, interruptedAt, log, httpUp, resp>>

BackupStep(r, in) ==
    /\ Executing(r)
    /\ runs[r].pc = "backup_service"
    /\ runs' = StoreResult(runs, r, "backup_service", in,
                           CheckBackupService(in), "storage")
    /\ UNCHANGED <<cfgfile, monitor, pc, wakeAt, now, startedAt, ticks,
                   tickMark, lastFault, interruptedAt, log, httpUp, resp>>

StorageStep(r, in) ==
    /\ Executing(r)
    /\ runs[r].pc = "storage"
    /\ runs' = StoreResult(runs, r, "storage", in, CheckStorageUsage(in),
                           "system")
    /\ UNCHANGED <<cfgfile, monitor, pc, wakeAt, now, startedAt, ticks,
                   tickMark, lastFault, interruptedAt, log, httpUp, resp>>

SystemStep(r, in) ==
    /\ Executing(r)
    /\ runs[r].pc = "system"
    /\ runs' = StoreResult(runs, r, "system", in, GetSystemMetrics(in), "log")
    /\ UNCHANGED <<cfgfile, monitor, pc, wakeAt, now, startedAt, ticks,
                   tickMark, lastFault, interruptedAt, log, httpUp, resp>>

\* logger.info of the report, and the return
LogStep(r) ==
    /\ Executing(r)
    /\ runs[r].pc = "log"
    /\ log' = Append(log, LogLine("INFO", "Health check completed"))
    /\ runs' = [runs EXCEPT ![r].pc = "done"]
    /\ UNCHANGED <<cfgfile, monitor, pc, wakeAt, now, startedAt, ticks,
                   tickMark, lastFault, interruptedAt, httpUp, resp>>

\* the dict run_health_check returns
HealthData(run) == ("timestamp" :> run.ts) @@ run.res

(***************************************************************************)
(* What the external calls can give.                                       *)
(***************************************************************************)
HttpResponses ==
    {[status_code |-> 200, elapsed |-> 1], [status_code |-> 503, elapsed |-> 1],
     Raise("ConnectionError")}

\* os.system gives the wait status: 0, 256 (pgrep exits 1: no match),
\* 32512 (the shell exits 127: pgrep not found), 32256 (126: not permitted),
\* -1 (no child process could be created)
SystemResults ==
    {[result |-> 0], [result |-> 256], [result |-> 32512], [result |-> 32256],
     [result |-> -1], Raise("OSError")}

FrSizes == {1, 2}
StatvfsResults ==
    {[f_frsize |-> s, f_blocks |-> b, f_bavail |-> a] :
        s \in FrSizes, b \in 0..MaxBlocks, a \in 0..MaxBlocks}
FsStates ==
    {[exists |-> FALSE]} \cup
    {[exists |-> TRUE, stat |-> st] :
        st \in {Raise("OSError")} \cup
               {x \in StatvfsResults : x.f_bavail <= x.f_blocks}}

PsutilResults ==
    {[cpu |-> 12, memory |-> 40, disk |-> 55], Raise("ImportError"),
     Raise("RuntimeError")}

\* the outcomes the daemon's runs are checked under
DaemonHttpResponses == HttpResponses
DaemonSystemResults == {[result |-> 0], [result |-> 256]}
DaemonFsStates ==
    {[exists |-> FALSE],
     [exists |-> TRUE, stat |-> [f_frsize |-> 1, f_blocks |-> 3, f_bavail |-> 1]]}
DaemonPsutilResults == {[cpu |-> 12, memory |-> 40, disk |-> 55], Raise("ImportError")}

(***************************************************************************)
(* The configuration files the process may find.  A section is a function  *)
(* from the keys it holds to their text; a file is a function from the     *)
(* sections it holds.  A file that does not exist reads as one without     *)
(* sections (config.read skips it).                                        *)
(***************************************************************************)
InfluxTexts ==
    [url |-> {"http://influxdb:8086"}, token |-> {"s3cret", "acme"},
     org |-> {"acme"}, bucket |-> {"metrics"}]
MonitoringTexts ==
    [check_interval |-> {"abc", "-1", "0", "5"},
     alert_threshold |-> {"high", "80.0"}]

SectionsOf(texts) ==
    UNION {{s \in [D -> UNION {texts[k] : k \in D}] :
               \A k \in D : s[k] \in texts[k]} : D \in SUBSET DOMAIN texts}

ConfigFiles ==
    {[k \in {} |-> EmptyDict]} \cup
    {("influxdb" :> i) : i \in SectionsOf(InfluxTexts)} \cup
    {("monitoring" :> m) : m \in SectionsOf(MonitoringTexts)} \cup
    {("influxdb" :> i) @@ ("monitoring" :> m) :
        i \in SectionsOf(InfluxTexts), m \in SectionsOf(MonitoringTexts)}

\* a response carries the time it was sent at (its Date header)
NoResponse == [route |-> "", code |-> 0, date |-> 0]

Init ==
    /\ cfgfile \in ConfigFiles
    /\ monitor = NoMonitor
    /\ pc = "import"
    /\ wakeAt = 0
    /\ now = BootTime
    /\ startedAt = BootTime
    /\ ticks = 0
    /\ tickMark = 0
    /\ lastFault = ""
    /\ interruptedAt = ""
    /\ runs = [r \in RunIds |-> IdleRun]
    /\ log = <<>>
    /\ httpUp = FALSE
    /\ resp = NoResponse

(***************************************************************************)
(* The main thread.                                                        *)
(***************************************************************************)
\* line 116, at import: an exception of the constructor ends the process
Startup ==
    /\ pc = "import"
    /\ LET m == Construct(cfgfile)
       IN  IF IsRaise(m)
           THEN /\ pc' = "crashed"
                /\ lastFault' = m.exception
                /\ UNCHANGED monitor
           ELSE /\ pc' = "main"
                /\ monitor' = m
                /\ UNCHANGED lastFault
    /\ UNCHANGED <<cfgfile, wakeAt, now, startedAt, ticks, tickMark,
                   interruptedAt, runs, log, httpUp, resp>>

\* main() up to the loop: the listener thread is started
MainStart ==
    /\ pc = "main"
    /\ log' = log \o <<LogLine("INFO", "Starting InfluxDB Monitor Service"),
                       LogLine("INFO", "Monitor service started on port 3000")>>
    /\ httpUp' = TRUE
    /\ pc' = "loop"
    /\ UNCHANGED <<cfgfile, monitor, wakeAt, now, startedAt, ticks, tickMark,
                   lastFault, interruptedAt, runs, resp>>

\* line 158: the loop calls run_health_check, which reads the clock
TickBegin ==
    /\ pc = "loop"
    /\ ticks < MaxTicks
    /\ ticks' = ticks + 1
    /\ tickMark' = Len(log)
    /\ runs' = [runs EXCEPT ![LoopRun] = NewRun(now)]
    /\ pc' = "check"
    /\ UNCHANGED <<cfgfile, monitor, wakeAt, now, startedAt, lastFault,
                   interruptedAt, log, httpUp, resp>>

\* lines 161-162
EscalateDb ==
    /\ pc = "check"
    /\ runs[LoopRun].pc = "done"
    /\ log' = IF HealthData(runs[LoopRun])["influxdb"].status # "healthy"
              THEN Append(log, LogLine("ERROR", "InfluxDB health check failed"))
              ELSE log
    /\ pc' = "escalate_backup"
    /\ UNCHANGED <<cfgfile, monitor, wakeAt, now, startedAt, ticks, tickMark,
                   lastFault, interruptedAt, runs, httpUp, resp>>

\* EscalateBackup with `elif` for the `if` of line 164
EscalateBackupElif ==
    /\ pc = "escalate_backup"
    /\ log' = IF /\ HealthData(runs[LoopRun])["influxdb"].status = "healthy"
                 /\ HealthData(runs[LoopRun])["backup_service"].status # "running"
              THEN Append(log, LogLine("WARNING", "Backup service not running"))
              ELSE log
    /\ pc' = "sleep_call"
    /\ UNCHANGED <<cfgfile, monitor, wakeAt, now, startedAt, ticks, tickMark,
                   lastFault, interruptedAt, runs, httpUp, resp>>

\* lines 164-165
EscalateBackup ==
    /\ pc = "escalate_backup"
    /\ log' = IF HealthData(runs[LoopRun])["backup_service"].status # "running"
              THEN Append(log, LogLine("WARNING", "Backup service not running"))
              ELSE log
    /\ pc' = "sleep_call"
    /\ UNCHANGED <<cfgfile, monitor, wakeAt, now, startedAt, ticks, tickMark,
                   lastFault, interruptedAt, runs, httpUp, resp>>

\* time.sleep(secs) raises ValueError for a negative length
SleepRaises(secs) == secs < 0

\* the exception the tick's body is raising, "" for none
TickException ==
    IF pc = "check" /\ runs[LoopRun].pc = "raised"
    THEN runs[LoopRun].exc
    ELSE IF pc = "sleep_call" /\ SleepRaises(monitor.check_interval)
    THEN "ValueError"
    ELSE ""

\* line 168
SleepBegin ==
    /\ pc = "sleep_call"
    /\ ~SleepRaises(monitor.check_interval)
    /\ wakeAt' = now + monitor.check_interval
    /\ pc' = "sleep"
    /\ UNCHANGED <<cfgfile, monitor, now, startedAt, ticks, tickMark,
                   lastFault, interruptedAt, runs, log, httpUp, resp>>

\* lines 173-175: except Exception, its log line, and the call of sleep(10)
\* LoopFault with the handler leaving the loop (a `break` after the log line)
LoopFaultBreaks ==
    /\ TickException # ""
    /\ lastFault' = TickException
    /\ log' = Append(log, LogLine("ERROR", "Error in monitoring loop"))
    /\ pc' = "exited"
    /\ httpUp' = FALSE
    /\ UNCHANGED <<cfgfile, monitor, wakeAt, now, startedAt, ticks, tickMark,
                   interruptedAt, runs, resp>>

LoopFault ==
    /\ TickException # ""
    /\ lastFault' = TickException
    /\ log' = Append(log, LogLine("ERROR", "Error in monitoring loop"))
    /\ wakeAt' = now + Backoff
    /\ pc' = "backoff"
    /\ UNCHANGED <<cfgfile, monitor, now, startedAt, ticks, tickMark,
                   interruptedAt, runs, httpUp, resp>>

\* a sleep of the loop returns, and the loop goes round
Wake ==
    /\ pc \in {"sleep", "backoff"}
    /\ now >= wakeAt
    /\ pc' = "loop"
    /\ UNCHANGED <<cfgfile, monitor, wakeAt, now, startedAt, ticks, tickMark,
                   lastFault, interruptedAt, runs, log, httpUp, resp>>

\* the positions of the main thread inside the try block of lines 157-168
InTry(p) == p \in {"loop", "check", "escalate_backup", "sleep_call", "sleep"}

\* the interrupt signal: KeyboardInterrupt is raised where the main thread
\* is.  Lines 170-172 catch it inside the try block; anywhere else it ends
\* the process with a traceback.  The listener is a daemon thread and ends
\* with the process, and with it every run in progress.
Interrupt ==
    /\ pc \in {"import", "main", "backoff"} \/ InTry(pc)
    /\ interruptedAt' = pc
    /\ lastFault' = "KeyboardInterrupt"
    /\ IF InTry(pc)
       THEN /\ log' = Append(log, LogLine("INFO", "Shutting down monitor service"))
            /\ pc' = "exited"
       ELSE /\ log' = log
            /\ pc' = "crashed"
    /\ httpUp' = FALSE
    /\ runs' = [r \in RunIds |-> IdleRun]
    /\ UNCHANGED <<cfgfile, monitor, wakeAt, now, startedAt, ticks, tickMark,
                   resp>>

\* the clock
Advance ==
    /\ pc \notin {"exited", "crashed"}
    /\ now + ClockStep <= BootTime + MaxTime
    /\ now' = now + ClockStep
    /\ UNCHANGED <<cfgfile, monitor, pc, wakeAt, startedAt, ticks, tickMark,
                   lastFault, interruptedAt, runs, log, httpUp, resp>>

(***************************************************************************)
(* The listener thread: the three routes.  A handler that raises (here:    *)
(* reading a monitor that was not constructed) is answered with 500.       *)
(***************************************************************************)
ServerError(route, t) == [route |-> route, code |-> 500, date |-> t]

\* lines 118-121
Health ==
    /\ httpUp
    /\ resp' = [route |-> "/health", code |-> 200, date |-> now,
                body |-> [status |-> "healthy", service |-> "influxdb-monitor"]]
    /\ UNCHANGED <<cfgfile, monitor, pc, wakeAt, now, startedAt, ticks,
                   tickMark, lastFault, interruptedAt, runs, log, httpUp>>

\* StatusPayload with the token among the configuration it shows
StatusPayloadWithToken(m, t) ==
    [service |-> "influxdb-monitor",
     version |-> "1.0.0",
     uptime |-> t,
     config |-> [influxdb_url |-> m.influxdb_url,
                 token |-> m.token,
                 org |-> m.org,
                 bucket |-> m.bucket,
                 check_interval |-> m.check_interval]]

\* the dict of lines 131-141, for monitor m at time t
StatusPayload(m, t) ==
    [service |-> "influxdb-monitor",
     version |-> "1.0.0",
     uptime |-> t,
     config |-> [influxdb_url |-> m.influxdb_url,
                 org |-> m.org,
                 bucket |-> m.bucket,
                 check_interval |-> m.check_interval]]

\* lines 128-141
Status ==
    /\ httpUp
    /\ resp' = IF monitor.constructed
               THEN [route |-> "/status", code |-> 200, date |-> now,
                     body |-> StatusPayload(monitor, now)]
               ELSE ServerError("/status", now)
    /\ UNCHANGED <<cfgfile, monitor, pc, wakeAt, now, startedAt, ticks,
                   tickMark, lastFault, interruptedAt, runs, log, httpUp>>

\* lines 123-126: the handler calls run_health_check; request r + 1 comes
\* after request r
MetricsBegin(r) ==
    /\ httpUp
    /\ r # LoopRun
    /\ runs[r].pc = "idle"
    /\ r = 1 \/ runs[r - 1].pc # "idle"
    /\ runs' = [runs EXCEPT ![r] =
                   IF monitor.constructed THEN NewRun(now)
                   ELSE [IdleRun EXCEPT !.pc = "raised", !.exc = "AttributeError"]]
    /\ UNCHANGED <<cfgfile, monitor, pc, wakeAt, now, startedAt, ticks,
                   tickMark, lastFault, interruptedAt, log, httpUp, resp>>

\* jsonify of the report: 200; an exception of the run: 500
MetricsRespond(r) ==
    /\ httpUp
    /\ r # LoopRun
    /\ runs[r].pc \in {"done", "raised"}
    /\ runs' = [runs EXCEPT ![r].pc =
                   IF runs[r].pc = "done" THEN "responded" ELSE "failed"]
    /\ UNCHANGED <<cfgfile, monitor, pc, wakeAt, now, startedAt, ticks,
                   tickMark, lastFault, interruptedAt, log, httpUp, resp>>

\* the whole daemon; the specifications below are the environments its
\* properties are checked in
Next ==
    \/ Startup
    \/ MainStart
    \/ TickBegin
    \/ \E r \in RunIds :
        \/ \E in \in DaemonHttpResponses : InfluxStep(r, in)
        \/ \E in \in DaemonSystemResults : BackupStep(r, in)
        \/ \E in \in DaemonFsStates : StorageStep(r, in)
        \/ \E in \in DaemonPsutilResults : SystemStep(r, in)
        \/ LogStep(r)
        \/ MetricsBegin(r)
        \/ MetricsRespond(r)
    \/ EscalateDb
    \/ EscalateBackup
    \/ SleepBegin
    \/ LoopFault
    \/ Wake
    \/ Interrupt
    \/ Advance
    \/ Health
    \/ Status

Spec == Init /\ [][Next]_vars

(***************************************************************************)
(* The daemon whose HTTP clients ask only /health and /status: the main    *)
(* thread under every configuration file, interrupt and clock.             *)
(***************************************************************************)
NextLoop ==
    \/ Startup
    \/ MainStart
    \/ TickBegin
    \/ \E in \in DaemonHttpResponses : InfluxStep(LoopRun, in)
    \/ \E in \in DaemonSystemResults : BackupStep(LoopRun, in)
    \/ \E in \in DaemonFsStates : StorageStep(LoopRun, in)
    \/ \E in \in DaemonPsutilResults : SystemStep(LoopRun, in)
    \/ LogStep(LoopRun)
    \/ EscalateDb
    \/ EscalateBackup
    \/ SleepBegin
    \/ LoopFault
    \/ Wake
    \/ Interrupt
    \/ Advance
    \/ Health
    \/ Status

SpecLoop == Init /\ [][NextLoop]_vars

(***************************************************************************)
(* The started daemon of one configuration: the run of its loop's first   *)
(* tick and the runs of its /metrics requests, interleaved step by step.   *)
(***************************************************************************)
FileOf(token, interval) ==
    ("influxdb" :> [url |-> "http://influxdb:8086", token |-> token,
                    org |-> "acme", bucket |-> "metrics"]) @@
    ("monitoring" :> [check_interval |-> interval, alert_threshold |-> "80.0"])

Started(file) ==
    /\ cfgfile = file
    /\ monitor = Construct(file)
    /\ pc = "loop"
    /\ wakeAt = 0
    /\ now = BootTime
    /\ startedAt = BootTime
    /\ ticks = 0
    /\ tickMark = 0
    /\ lastFault = ""
    /\ interruptedAt = ""
    /\ runs = [r \in RunIds |-> IdleRun]
    /\ log = <<LogLine("INFO", "Starting InfluxDB Monitor Service"),
               LogLine("INFO", "Monitor service started on port 3000")>>
    /\ httpUp = TRUE
    /\ resp = NoResponse

InitServe == Started(FileOf("s3cret", "5"))

NextServe ==
    \/ TickBegin
    \/ \E r \in RunIds :
        \/ \E in \in DaemonHttpResponses : InfluxStep(r, in)
        \/ \E in \in DaemonSystemResults : BackupStep(r, in)
        \/ \E in \in DaemonFsStates : StorageStep(r, in)
        \/ \E in \in DaemonPsutilResults : SystemStep(r, in)
        \/ LogStep(r)
        \/ MetricsBegin(r)
        \/ MetricsRespond(r)

SpecServe == InitServe /\ [][NextServe]_vars

(***************************************************************************)
(* One aggregation run, that of the loop's first tick, under every outcome *)
(* of the external calls.                                                  *)
(***************************************************************************)
InitRun == Started(FileOf("s3cret", "5"))

NextRun ==
    \/ TickBegin
    \/ \E in \in HttpResponses : InfluxStep(LoopRun, in)
    \/ \E in \in SystemResults : BackupStep(LoopRun, in)
    \/ \E in \in FsStates : StorageStep(LoopRun, in)
    \/ \E in \in PsutilResults : SystemStep(LoopRun, in)
    \/ LogStep(LoopRun)

SpecRun == InitRun /\ [][NextRun]_vars

(***************************************************************************)
(* The claims.                                                             *)
(***************************************************************************)
TheRun == runs[LoopRun]

\* the external call of probe `name` faulted, having given `in`
Faulted(name, in) ==
    IF name = "storage"
    THEN in.exists /\ (IsRaise(in.stat) \/ in.stat.f_frsize * in.stat.f_blocks = 0)
    ELSE IsRaise(in)

\* C1 (under SpecRun): run_health_check never raises; the report it returns
\* holds the timestamp and the four probe fields, whatever each probe's
\* external call gave; a probe whose call faulted contributes its own error
\* result (the system probe "psutil not available" when the import of
\* psutil is what failed), and every probe is invoked and included.
C1_RunNeverRaises ==
    /\ TheRun.pc # "raised"
    /\ DOMAIN TheRun.res = DOMAIN TheRun.seen
    /\ \A p \in DOMAIN TheRun.seen :
          Faulted(p, TheRun.seen[p]) =>
              TheRun.res[p].status =
                  IF p = "system" /\ TheRun.seen[p].exception = "ImportError"
                  THEN "psutil not available" ELSE "error"
    /\ TheRun.pc = "done" =>
          /\ DOMAIN TheRun.seen = ProbeNames
          /\ DOMAIN HealthData(TheRun) = ProbeNames \cup {"timestamp"}
          /\ HealthData(TheRun)["timestamp"] = now

C1_Witness ==
    /\ TheRun.pc = "done"
    /\ IsRaise(TheRun.seen["influxdb"])
    /\ TheRun.seen["backup_service"] = [result |-> 0]
    /\ TheRun.seen["storage"].exists
    /\ ~IsRaise(TheRun.seen["storage"].stat)
    /\ TheRun.seen["storage"].stat.f_blocks = 0
    /\ TheRun.seen["system"] = Raise("RuntimeError")
    /\ TheRun.res["backup_service"].status = "running"

\* C7 (under SpecRun), as claimed: check_backup_service reports "running"
\* when a process matched, "stopped" when the query ran and matched none,
\* and an error result with a message when the query itself failed; a
\* failed query is never reported as "stopped".
C7_Claim ==
    "backup_service" \in DOMAIN TheRun.res =>
        LET in == TheRun.seen["backup_service"]
            out == TheRun.res["backup_service"]
        IN  /\ (~IsRaise(in) /\ in.result = 0) => out.status = "running"
            /\ (~IsRaise(in) /\ in.result = 256) => out.status = "stopped"
            /\ (IsRaise(in) \/ in.result \notin {0, 256}) =>
                  out.status = "error" /\ "error" \in DOMAIN out

Abs(x) == IF x < 0 THEN -x ELSE x

\* C10 (under SpecRun), as claimed: check_storage_usage gives an error result
\* for a missing directory and for a filesystem of size zero, and otherwise
\* status ok with used_percentage exactly (total - free) / total * 100.
C10_Claim ==
    "storage" \in DOMAIN TheRun.res =>
        LET fs == TheRun.seen["storage"]
            out == TheRun.res["storage"]
        IN  /\ ~fs.exists => out.status = "error"
            /\ (fs.exists /\ ~IsRaise(fs.stat)) =>
                  LET free == fs.stat.f_frsize * fs.stat.f_bavail
                      total == fs.stat.f_frsize * fs.stat.f_blocks
                  IN  /\ total = 0 => out.status = "error"
                      /\ total > 0 =>
                            /\ out.status = "ok"
                            /\ out.used_percentage * total = (total - free) * 10000

\* C10 (under SpecRun), amended: check_storage_usage gives an error result
\* for a missing directory and for a filesystem of size zero, and otherwise
\* status ok with used_percentage the hundredth nearest to
\* (total - free) / total * 100, which is 100.0 when free = 0.
C10_UsedPercentageRounded ==
    "storage" \in DOMAIN TheRun.res =>
        LET fs == TheRun.seen["storage"]
            out == TheRun.res["storage"]
        IN  /\ ~fs.exists => out.status = "error"
            /\ (fs.exists /\ ~IsRaise(fs.stat)) =>
                  LET free == fs.stat.f_frsize * fs.stat.f_bavail
                      total == fs.stat.f_frsize * fs.stat.f_blocks
                  IN  /\ total = 0 => out.status = "error"
                      /\ total > 0 =>
                            /\ out.status = "ok"
                            /\ 2 * Abs(out.used_percentage * total
                                       - (total - free) * 10000) <= total
                            /\ free = 0 => out.used_percentage = 10000

C10_Witness ==
    /\ "storage" \in DOMAIN TheRun.res
    /\ TheRun.seen["storage"].exists
    /\ ~IsRaise(TheRun.seen["storage"].stat)
    /\ TheRun.seen["storage"].stat.f_blocks = 3
    /\ TheRun.seen["storage"].stat.f_bavail = 1
    /\ TheRun.res["storage"].status = "ok"
    /\ TheRun.res["storage"].used_percentage = 6667

FaultLine == LogLine("ERROR", "Error in monitoring loop")
ShutdownLine == LogLine("INFO", "Shutting down monitor service")
DbLine == LogLine("ERROR", "InfluxDB health check failed")
BackupLine == LogLine("WARNING", "Backup service not running")

\* a step of the main thread that is not the interrupt's
LoopMoves == pc' # pc /\ interruptedAt' = interruptedAt

\* C2 (under SpecLoop): when the body of a tick raises anything but the
\* interrupt, the loop's next step logs the fault at error level and starts
\* a pause of 10 seconds; the pause over, the loop is at its top again, where
\* the next tick begins; the loop ends by the interrupt alone.
C2_FaultBacksOffAndRetries ==
    [][/\ (TickException # "" /\ LoopMoves) =>
              /\ pc' = "backoff"
              /\ log' = Append(log, FaultLine)
              /\ wakeAt' = now + 10
       /\ (pc = "backoff" /\ LoopMoves) => (pc' = "loop" /\ now >= wakeAt)
       /\ (pc \in {"backoff"} \/ InTry(pc)) /\ pc' \in {"exited", "crashed"}
              => interruptedAt' = pc]_vars

C2_Witness ==
    /\ lastFault = "ValueError"
    /\ ticks = 2
    /\ pc = "check"
    /\ now >= startedAt + 10
    /\ \E i \in 1..Len(log) : log[i] = FaultLine

\* the lines equal to `line` that the current tick logged
CountSince(line) ==
    Cardinality({i \in (tickMark + 1)..Len(log) : log[i] = line})

\* C3 (under SpecLoop): once a tick has passed its escalation, it has logged
\* the error line once if the influxdb result is not "healthy" and not at
\* all otherwise, the warning line once if the backup_service result is not
\* "running" and not at all otherwise, each whatever the other, and no
\* other line above info level.
C3_EscalationExact ==
    pc \in {"sleep_call", "sleep"} =>
        LET hd == HealthData(TheRun)
        IN  /\ CountSince(DbLine) =
                  IF hd["influxdb"].status # "healthy" THEN 1 ELSE 0
            /\ CountSince(BackupLine) =
                  IF hd["backup_service"].status # "running" THEN 1 ELSE 0
            /\ \A i \in (tickMark + 1)..Len(log) :
                  log[i].level # "INFO" => log[i] \in {DbLine, BackupLine}

C3_Witness ==
    /\ pc = "sleep_call"
    /\ ticks = 2
    /\ HealthData(TheRun)["influxdb"].status = "unhealthy"
    /\ HealthData(TheRun)["backup_service"].status = "stopped"
    /\ CountSince(DbLine) = 1
    /\ CountSince(BackupLine) = 1

\* C4 (under SpecLoop), as claimed: an interrupt that arrives while the loop
\* runs, wherever the loop is (in the run, in the escalation, in the wait,
\* in the pause after a failed tick), makes the loop log the shutdown line
\* and exit cleanly.
C4_Claim ==
    (interruptedAt = "backoff" \/ InTry(interruptedAt)) =>
        /\ pc = "exited"
        /\ Len(log) > 0
        /\ log[Len(log)] = ShutdownLine

\* the texts of the configuration other than the token
OtherTexts(file) ==
    {file["influxdb"][k] : k \in DOMAIN file["influxdb"] \ {"token"}}

\* the values of the payload's fields that are strings
StringValues(body) ==
    {body.service, body.version} \cup
    {body.config[k] : k \in DOMAIN body.config \ {"check_interval"}}

StatusSent == resp.route = "/status" /\ resp.code = 200

C6_Claim == StatusSent => resp.body.uptime = resp.date - startedAt

\* the file has every recognized option, well formed
WellFormed(file) ==
    /\ DOMAIN file = {"influxdb", "monitoring"}
    /\ DOMAIN file["influxdb"] = DOMAIN InfluxTexts
    /\ DOMAIN file["monitoring"] = DOMAIN MonitoringTexts
    /\ file["monitoring"]["check_interval"] \in IntStrings
    /\ ParseInt(file["monitoring"]["check_interval"]).value > 0
    /\ file["monitoring"]["alert_threshold"] \in FloatStrings

\* C9 (under SpecLoop), as claimed: with an option missing or malformed, or a
\* check_interval that is not > 0, the process halts before the listener
\* starts and before the first tick, so that no tick fails because of the
\* configuration.
C9_Claim ==
    /\ ~WellFormed(cfgfile) => (~httpUp /\ ticks = 0)
    /\ ticks > 0 => lastFault # "ValueError"

\* the result of probe `name` on what its external call gave
ProbeResult(name, in) ==
    CASE name = "influxdb" -> CheckInfluxdbHealth(in)
      [] name = "backup_service" -> CheckBackupService(in)
      [] name = "storage" -> CheckStorageUsage(in)
      [] name = "system" -> GetSystemMetrics(in)

\* C8 (under SpecServe): with the runs of the loop and of /metrics requests
\* interleaved in every way, the fields of each run's report are the results
\* of that run's own probe calls; a run begins with an empty report; a step
\* that changes one run's report changes no other's; and no step changes
\* the monitor's configuration.
C8_RunsIndependent ==
    /\ [](\A r \in RunIds :
             /\ DOMAIN runs[r].res = DOMAIN runs[r].seen
             /\ \A p \in DOMAIN runs[r].res :
                   runs[r].res[p] = ProbeResult(p, runs[r].seen[p]))
    /\ [][/\ \A r \in RunIds :
                /\ runs'[r] # runs[r] =>
                      \A q \in RunIds \ {r} : runs'[q] = runs[q]
                /\ (runs'[r].pc = "influxdb" /\ runs[r].pc # "influxdb") =>
                      runs'[r].res = EmptyDict
          /\ monitor' = monitor
          /\ cfgfile' = cfgfile]_vars

C8_Witness ==
    /\ runs[LoopRun].pc = "system"
    /\ runs[1].pc = "system"
    /\ runs[LoopRun].res["influxdb"].status = "healthy"
    /\ runs[1].res["influxdb"].status = "error"
    /\ runs[LoopRun].res["storage"].status = "error"
    /\ runs[1].res["storage"].status = "ok"

====
